---- MODULE Spec2Model ----
(***************************************************************************)
(* Model of mcsrv's Server class (src/src/mcsrv/server.py): the registry   *)
(* file ~/.mcsrvrc, the per-server metadata file .mcsrvmeta, entity        *)
(* construction with jar location, and the screen-session binding.         *)
(*                                                                         *)
(* Strings are sequences of one-character strings, so that str.strip,      *)
(* str.split, str.startswith, str.lower and the line-oriented file format  *)
(* are computed character by character as Python computes them.  A file is *)
(* a record [exists, text] whose text is the flat character content.       *)
(***************************************************************************)
EXTENDS Integers, Sequences, FiniteSets, TLC

VARIABLES rc, dirs, ents, screens, launched, statsCalls, last, inst

vars == <<rc, dirs, ents, screens, launched, statsCalls, last, inst>>

-----------------------------------------------------------------------------
(* Bounds of the model.                                                    *)

\* how many Server objects the process holds in memory at once
MaxEnts == 1
\* how many lines the registry file may grow to
MaxLines == 2
\* how many entries a mapping handed to save_data has
MaxEntries == 2
\* how many instances of the program run against one registry file
MaxInst == 2
\* how many screen sessions the host ever spawns (pids are 1..MaxPid)
MaxPid == 2
\* how many launch invocations / stats-provider calls are counted
MaxCalls == 2

-----------------------------------------------------------------------------
(* Characters and strings.                                                 *)

NL == "\n"

\* With(e, LAMBDA v : body) is body with v bound to the value of e, which is
\* computed once however often body uses v
With(e, Body(_)) == CHOOSE r \in {Body(v) : v \in {e}} : TRUE

\* str.strip() with no argument strips these (ASCII whitespace)
IsSpace(c) == c \in {" ", NL, "\t", "\r"}

RECURSIVE LStrip(_)
LStrip(s) == IF s # << >> /\ IsSpace(Head(s)) THEN LStrip(Tail(s)) ELSE s

RECURSIVE RStrip(_)
RStrip(s) ==
  IF s # << >> /\ IsSpace(s[Len(s)]) THEN RStrip(SubSeq(s, 1, Len(s) - 1)) ELSE s

Strip(s) == RStrip(LStrip(s))

StartsWith(s, pre) == Len(s) >= Len(pre) /\ SubSeq(s, 1, Len(pre)) = pre

EndsWith(s, suf) ==
  Len(s) >= Len(suf) /\ SubSeq(s, Len(s) - Len(suf) + 1, Len(s)) = suf

\* index of the first occurrence of character c in s, 0 when there is none
FirstIndex(s, c) ==
  With({i \in 1..Len(s) : s[i] = c}, LAMBDA at :
    IF at = {} THEN 0 ELSE CHOOSE i \in at : \A j \in at : i <= j)

\* index of the last occurrence of character c in s, 0 when there is none
LastIndex(s, c) ==
  With({i \in 1..Len(s) : s[i] = c}, LAMBDA at :
    IF at = {} THEN 0 ELSE CHOOSE i \in at : \A j \in at : i >= j)

\* str.lower() on the characters the model uses
LowerChar(c) ==
  CASE c = "A" -> "a"
    [] c = "B" -> "b"
    [] c = "G" -> "g"
    [] c = "M" -> "m"
    [] c = "K" -> "k"
    [] OTHER -> c

Lower(s) == [i \in 1..Len(s) |-> LowerChar(s[i])]

\* file.readlines(): the text cut after every newline, newlines kept
RECURSIVE ReadLines(_)
ReadLines(text) ==
  IF text = << >> THEN << >>
  ELSE With(FirstIndex(text, NL), LAMBDA i :
         IF i = 0 THEN <<text>>
         ELSE <<SubSeq(text, 1, i)>> \o ReadLines(SubSeq(text, i + 1, Len(text))))

SeqToSet(s) == {s[i] : i \in 1..Len(s)}

\* every ordering of a finite set, as sequences without repetition
Orderings(S) == {f \in [1..Cardinality(S) -> S] : SeqToSet(f) = S}

RECURSIVE Concat(_)
Concat(ss) == IF ss = << >> THEN << >> ELSE Head(ss) \o Concat(Tail(ss))

-----------------------------------------------------------------------------
(* Literals.                                                               *)

pSA == <<"/", "s", "/", "a">>
pOA == <<"/", "o", "/", "A">>
pSB == <<"/", "s", "/", "b">>
\* a directory whose name ends in a space
pSAsp == <<"/", "s", "/", "a", " ">>
\* a non-canonical spelling of pSB
pAlias == <<"/", "o", "/", ".", ".", "/", "s", "/", "b">>

\* the directories that can exist on disk
DirPaths == {pSA, pOA, pSB, pSAsp}
\* the path strings handed to Server(...)
InputPaths == DirPaths \cup {pAlias}

xJar == <<"x", ".", "j", "a", "r">>
yJar == <<"y", ".", "j", "a", "r">>
dotJar == <<".", "j", "a", "r">>
metaName == <<".", "m", "c", "s", "r", "v", "m", "e", "t", "a">>

kJar == <<"j", "a", "r">>
kRam == <<"r", "a", "m">>
kAutostart == <<"a", "u", "t", "o", "s", "t", "a", "r", "t">>
sTrue == <<"t", "r", "u", "e">>
sFalse == <<"f", "a", "l", "s", "e">>

NoFile == [exists |-> FALSE, text |-> << >>]
File(text) == [exists |-> TRUE, text |-> text]

NoDir == [exists |-> FALSE, files |-> {}, meta |-> NoFile]

\* the jar files that come and go, per directory
JarsFor(p) == IF p = pSB THEN {xJar, yJar} ELSE {}

-----------------------------------------------------------------------------
(* Paths.                                                                  *)

\* the components of a path string: the pieces between "/" characters
RECURSIVE Components(_)
Components(s) ==
  IF s = << >> THEN << >>
  ELSE With(FirstIndex(s, "/"), LAMBDA i :
         IF i = 0 THEN <<s>>
         ELSE (IF i = 1 THEN << >> ELSE <<SubSeq(s, 1, i - 1)>>)
              \o Components(SubSeq(s, i + 1, Len(s))))

JoinPath(comps) ==
  IF comps = << >> THEN <<"/">>
  ELSE Concat([i \in 1..Len(comps) |-> <<"/">> \o comps[i]])

\* pathlib.Path(path).absolute() on an absolute path string: empty and "."
\* components and a trailing slash are dropped, ".." is kept
Absolute(s) == JoinPath(SelectSeq(Components(s), LAMBDA c : c # <<".">>))

\* util.clean_path: ".." segments resolved against their parent
RECURSIVE ResolveDots(_, _)
ResolveDots(cs, acc) ==
  IF cs = << >> THEN acc
  ELSE IF Head(cs) = <<".", ".">>
       THEN ResolveDots(Tail(cs), IF acc = << >> THEN acc ELSE SubSeq(acc, 1, Len(acc) - 1))
       ELSE ResolveDots(Tail(cs), Append(acc, Head(cs)))

clean_path(p) == JoinPath(ResolveDots(Components(p), << >>))

\* pathlib's .name: the final component
Name(p) == SubSeq(p, LastIndex(p, "/") + 1, Len(p))

\* Server.id
id(path) == Lower(Name(path))

\* Server.screen_name
screen_name(path) == <<"m", "c", "-">> \o id(path)

\* Path.is_dir()
IsDir(d, p) == p \in DOMAIN d /\ d[p].exists

\* Path.is_file() of path.joinpath(name)
IsFile(d, p, name) ==
  /\ IsDir(d, p)
  /\ \/ name \in d[p].files
     \/ name = metaName /\ d[p].meta.exists

\* path.glob("*.jar")
Glob(d, p) == {n \in d[p].files : EndsWith(n, dotJar)}

-----------------------------------------------------------------------------
(* The data mapping (an insertion-ordered dict) and the metadata file.     *)

HasKey(data, k) == \E i \in 1..Len(data) : data[i].k = k

DictGet(data, k, default) ==
  IF HasKey(data, k) THEN data[CHOOSE i \in 1..Len(data) : data[i].k = k].v ELSE default

\* data[k] = v: an existing key keeps its position
DictSet(data, k, v) ==
  IF HasKey(data, k)
  THEN [i \in 1..Len(data) |-> IF data[i].k = k THEN [k |-> k, v |-> v] ELSE data[i]]
  ELSE Append(data, [k |-> k, v |-> v])

\* Server._load_data: the loop over the file's lines
RECURSIVE ParseLines(_, _)
ParseLines(lines, data) ==
  IF lines = << >> THEN data
  ELSE With(Strip(Head(lines)), LAMBDA line :
       With(FirstIndex(line, "="), LAMBDA i :
         IF StartsWith(line, <<"#">>) THEN ParseLines(Tail(lines), data)
         ELSE IF i = 0 THEN ParseLines(Tail(lines), data)
         ELSE ParseLines(Tail(lines),
                         DictSet(data, SubSeq(line, 1, i - 1), SubSeq(line, i + 1, Len(line))))))

\* Server._load_data
load_data(meta) == IF ~meta.exists THEN << >> ELSE ParseLines(ReadLines(meta.text), << >>)

\* Server.save_data: the file rewritten from the mapping
save_data(data) ==
  File(Concat([i \in 1..Len(data) |-> data[i].k \o <<"=">> \o data[i].v \o <<NL>>]))

-----------------------------------------------------------------------------
(* Entity construction.                                                    *)

NoScreen == [name |-> << >>, pid |-> 0]
\* the screen_handle slot of a new object: nothing cached.  restarted is
\* history: start has been called on the object after it answered Stopped
Uncached == [cached |-> FALSE, screen |-> NoScreen, restarted |-> FALSE]

Cancel == << >>
\* what the user may answer to the "Which .jar runs your server?" prompt
Answers == {xJar, yJar, Cancel}

\* Server._locate_jar: [res, data, jar]
locate_jar(d, p, data, answer) ==
  IF HasKey(data, kJar) /\ IsFile(d, p, DictGet(data, kJar, << >>))
  THEN [res |-> "ok", data |-> data, jar |-> DictGet(data, kJar, << >>), scanned |-> FALSE]
  ELSE With(Glob(d, p), LAMBDA jars :
         IF Cardinality(jars) = 0
         THEN [res |-> "NoArtifact", data |-> data, jar |-> << >>, scanned |-> TRUE]
         ELSE IF Cardinality(jars) = 1
         THEN With(CHOOSE n \in jars : TRUE, LAMBDA j :
                [res |-> "ok", data |-> DictSet(data, kJar, j), jar |-> j, scanned |-> TRUE])
         ELSE IF answer \notin jars
         THEN [res |-> "Cancelled", data |-> data, jar |-> << >>, scanned |-> TRUE]
         ELSE [res |-> "ok", data |-> DictSet(data, kJar, answer), jar |-> answer,
               scanned |-> TRUE])

NoEnt == [path |-> << >>, data |-> << >>, jar |-> << >>, handle |-> Uncached]

\* Server.__init__ without the save_data() of line 65
Server_without_save(pathStr, d, answer) ==
  With(clean_path(Absolute(pathStr)), LAMBDA path :
    IF ~IsDir(d, path)
    THEN [res |-> "NotFound", ent |-> NoEnt, dirs |-> d, scanned |-> FALSE, loaded |-> FALSE]
    ELSE With(locate_jar(d, path, load_data(d[path].meta), answer), LAMBDA loc :
           IF loc.res # "ok"
           THEN [res |-> loc.res, ent |-> NoEnt, dirs |-> d, scanned |-> loc.scanned,
                 loaded |-> TRUE]
           ELSE [res |-> "ok",
                 ent |-> [path |-> path, data |-> loc.data, jar |-> loc.jar,
                          handle |-> Uncached],
                 dirs |-> d, scanned |-> loc.scanned, loaded |-> TRUE]))

\* Server.__init__ with the save_data() of line 65 moved before _locate_jar
Server_saves_first(pathStr, d, answer) ==
  With(clean_path(Absolute(pathStr)), LAMBDA path :
    IF ~IsDir(d, path)
    THEN [res |-> "NotFound", ent |-> NoEnt, dirs |-> d, scanned |-> FALSE, loaded |-> FALSE]
    ELSE With(locate_jar(d, path, load_data(d[path].meta), answer), LAMBDA loc :
           IF loc.res # "ok"
           THEN [res |-> loc.res, ent |-> NoEnt,
                 dirs |-> [d EXCEPT ![path].meta = save_data(load_data(d[path].meta))],
                 scanned |-> loc.scanned, loaded |-> TRUE]
           ELSE [res |-> "ok",
                 ent |-> [path |-> path, data |-> loc.data, jar |-> loc.jar,
                          handle |-> Uncached],
                 dirs |-> [d EXCEPT ![path].meta = save_data(loc.data)],
                 scanned |-> loc.scanned, loaded |-> TRUE]))

\* Server.__init__ with the is_dir() test of lines 59-60 moved behind
\* _load_data and _locate_jar
Server_loads_first(pathStr, d, answer) ==
  With(clean_path(Absolute(pathStr)), LAMBDA path :
    IF ~IsDir(d, path)
    THEN [res |-> "NoArtifact", ent |-> NoEnt, dirs |-> d, scanned |-> TRUE, loaded |-> TRUE]
    ELSE With(locate_jar(d, path, load_data(d[path].meta), answer), LAMBDA loc :
           IF loc.res # "ok"
           THEN [res |-> loc.res, ent |-> NoEnt, dirs |-> d, scanned |-> loc.scanned,
                 loaded |-> TRUE]
           ELSE [res |-> "ok",
                 ent |-> [path |-> path, data |-> loc.data, jar |-> loc.jar,
                          handle |-> Uncached],
                 dirs |-> [d EXCEPT ![path].meta = save_data(loc.data)],
                 scanned |-> loc.scanned, loaded |-> TRUE]))

\* Server.__init__: [res, ent, dirs, scanned, loaded]; scanned tells whether
\* _locate_jar globbed the directory for *.jar, loaded whether _load_data ran
Server(pathStr, d, answer) ==
  With(clean_path(Absolute(pathStr)), LAMBDA path :
    IF ~IsDir(d, path)
    THEN [res |-> "NotFound", ent |-> NoEnt, dirs |-> d, scanned |-> FALSE, loaded |-> FALSE]
    ELSE With(locate_jar(d, path, load_data(d[path].meta), answer), LAMBDA loc :
           IF loc.res # "ok"
           THEN [res |-> loc.res, ent |-> NoEnt, dirs |-> d, scanned |-> loc.scanned,
                 loaded |-> TRUE]
           ELSE [res |-> "ok",
                 ent |-> [path |-> path, data |-> loc.data, jar |-> loc.jar,
                          handle |-> Uncached],
                 dirs |-> [d EXCEPT ![path].meta = save_data(loc.data)],
                 scanned |-> loc.scanned, loaded |-> TRUE]))

-----------------------------------------------------------------------------
(* The registry.                                                           *)

\* Server.get_cached_server_paths
get_cached_server_paths(rcf) ==
  IF ~rcf.exists THEN << >>
  ELSE With(ReadLines(rcf.text), LAMBDA ls : [i \in 1..Len(ls) |-> Strip(ls[i])])

WriteLines(paths) == Concat([i \in 1..Len(paths) |-> paths[i] \o <<NL>>])

\* unregister_paths without the early return of lines 29-30
unregister_paths_always_rewrites(rcf, paths) ==
  {File(WriteLines(o)) :
     o \in Orderings(SeqToSet(get_cached_server_paths(rcf)) \ SeqToSet(paths))}

\* Server.unregister_paths: the registry files the call can leave behind
\* (a Python set is written in an unspecified iteration order)
unregister_paths(rcf, paths) ==
  IF Len(paths) = 0 THEN {rcf}
  ELSE {File(WriteLines(o)) :
          o \in Orderings(SeqToSet(get_cached_server_paths(rcf)) \ SeqToSet(paths))}

\* Server.get_registered_servers: the loop over the cached paths
RECURSIVE LoadServers(_, _, _, _, _)
LoadServers(paths, d, answer, out, invalid) ==
  IF paths = << >>
  THEN [res |-> "ok", out |-> out, invalid |-> invalid, dirs |-> d]
  ELSE With(Server(Head(paths), d, answer), LAMBDA c :
         IF c.res = "ok"
         THEN LoadServers(Tail(paths), c.dirs, answer, Append(out, c.ent), invalid)
         ELSE IF c.res = "NotFound"
         THEN LoadServers(Tail(paths), d, answer, out, Append(invalid, Head(paths)))
         ELSE [res |-> c.res, out |-> out, invalid |-> invalid, dirs |-> c.dirs])

\* get_registered_servers unregistering each missing directory as soon as it
\* is met, instead of after the loop
get_registered_servers_prunes_eagerly(rcf, d, answer) ==
  With(LoadServers(get_cached_server_paths(rcf), d, answer, << >>, << >>), LAMBDA r :
    [res |-> r.res, out |-> r.out, invalid |-> r.invalid, dirs |-> r.dirs,
     rcs |-> unregister_paths(rcf, r.invalid)])

\* Server.get_registered_servers: [res, out, invalid, dirs, rcs]
get_registered_servers(rcf, d, answer) ==
  With(LoadServers(get_cached_server_paths(rcf), d, answer, << >>, << >>), LAMBDA r :
    [res |-> r.res, out |-> r.out, invalid |-> r.invalid, dirs |-> r.dirs,
     rcs |-> IF r.res = "ok" THEN unregister_paths(rcf, r.invalid) ELSE {rcf}])

\* register without the conflict branch of lines 121-124
RegisterDecision_no_conflict(self, servers) ==
  IF \E i \in 1..Len(servers) : servers[i].path = self.path THEN "same" ELSE "append"

\* Server.register, after the registered servers are loaded: the first
\* registered server with this id decides
RegisterDecision(self, servers) ==
  With({i \in 1..Len(servers) : id(servers[i].path) = id(self.path)}, LAMBDA same :
    IF same = {} THEN "append"
    ELSE IF servers[CHOOSE k \in same : \A m \in same : k <= m].path = self.path
    THEN "same"
    ELSE "IdConflict")

\* Server.register: the append of lines 127-128
AppendLine(rcf, path) ==
  IF rcf.exists THEN File(rcf.text \o path \o <<NL>>) ELSE File(path \o <<NL>>)

-----------------------------------------------------------------------------
(* State.                                                                  *)
(*   rc         the registry file ~/.mcsrvrc                               *)
(*   dirs       the server directories on disk: existence, the jar files   *)
(*              in them and the .mcsrvmeta file                            *)
(*   ents       the Server objects the process holds                       *)
(*   screens    the running screen sessions: {name, pid} descriptors       *)
(*   launched   the "screen -d -S ... -m java" invocations made so far     *)
(*   statsCalls how many times psutil was asked about a process            *)
(*   last       the last call: operation, receiver, argument, outcome      *)
(*   inst       the other instances of the program that work on the same   *)
(*              registry file, each with its position in its command and   *)
(*              what it has read so far                                    *)

\* no other instance is running
NoInst == << >>

Idle ==
  [op |-> "env", self |-> << >>, arg |-> << >>, res |-> "ok", ret |-> << >>, warned |-> << >>]

\* the record of a call; warned lists the paths of the "server directory ...
\* not existing, removing it" warnings the call printed
Call(op, self, arg, res, ret, warned) ==
  [op |-> op, self |-> self, arg |-> arg, res |-> res, ret |-> ret, warned |-> warned]

Paths(servers) == [i \in 1..Len(servers) |-> servers[i].path]

Init ==
  /\ rc = NoFile
  /\ dirs = [p \in DirPaths |-> NoDir]
  /\ ents = {}
  /\ screens = {}
  /\ launched = << >>
  /\ statsCalls = 0
  /\ last = Idle
  /\ inst = NoInst

-----------------------------------------------------------------------------
(* The environment: server directories and jar files come and go.          *)

\* a server directory appears: set up before (one jar, jar=x.jar saved), or,
\* for pSB, also holding no jar and no metadata yet
FreshDirs(p) ==
  {[exists |-> TRUE, files |-> {xJar}, meta |-> save_data(<<[k |-> kJar, v |-> xJar]>>)]}
  \cup (IF p = pSB THEN {[exists |-> TRUE, files |-> {}, meta |-> NoFile]} ELSE {})

MkDir(p, fresh) ==
  /\ ~dirs[p].exists
  /\ dirs' = [dirs EXCEPT ![p] = fresh]
  /\ last' = Idle
  /\ UNCHANGED <<rc, ents, screens, launched, statsCalls, inst>>

RmDir(p) ==
  /\ dirs[p].exists
  /\ dirs' = [dirs EXCEPT ![p] = NoDir]
  /\ last' = Idle
  /\ UNCHANGED <<rc, ents, screens, launched, statsCalls, inst>>

PutJar(p, j) ==
  /\ dirs[p].exists
  /\ j \in JarsFor(p) \ dirs[p].files
  /\ dirs' = [dirs EXCEPT ![p].files = @ \cup {j}]
  /\ last' = Idle
  /\ UNCHANGED <<rc, ents, screens, launched, statsCalls, inst>>

DelJar(p, j) ==
  /\ dirs[p].exists
  /\ j \in dirs[p].files
  /\ dirs' = [dirs EXCEPT ![p].files = @ \ {j}]
  /\ last' = Idle
  /\ UNCHANGED <<rc, ents, screens, launched, statsCalls, inst>>

-----------------------------------------------------------------------------
(* The operations of Server.                                               *)

\* Server(path): a new object joins the ones the process holds
Construct(s, answer) ==
  /\ Cardinality(ents) < MaxEnts
  /\ \E c \in {Server(s, dirs, answer)} :
       /\ dirs' = c.dirs
       /\ ents' = IF c.res = "ok" THEN ents \cup {c.ent} ELSE ents
       /\ last' = Call("construct", clean_path(Absolute(s)), s, c.res,
                       IF c.scanned THEN <<"glob">> ELSE << >>, << >>)
  /\ UNCHANGED <<rc, screens, launched, statsCalls, inst>>

\* the process lets go of an object
Drop(e) ==
  /\ e \in ents
  /\ ents' = ents \ {e}
  /\ last' = Idle
  /\ UNCHANGED <<rc, dirs, screens, launched, statsCalls, inst>>

\* Server.get_registered_servers()
ListRegistered(answer) ==
  /\ \E g \in {get_registered_servers(rc, dirs, answer)} :
       /\ rc' \in g.rcs
       /\ dirs' = g.dirs
       /\ last' = Call("list", << >>, << >>, g.res,
                       IF g.res = "ok" THEN Paths(g.out) ELSE << >>, g.invalid)
  /\ UNCHANGED <<ents, screens, launched, statsCalls, inst>>

\* Server.unregister_paths(paths)
Unregister(paths) ==
  /\ rc' \in unregister_paths(rc, paths)
  /\ last' = Call("unregister", << >>, paths, "ok", << >>, << >>)
  /\ UNCHANGED <<dirs, ents, screens, launched, statsCalls, inst>>

\* e.register()
Register(e, answer) ==
  /\ e \in ents
  /\ \E g \in {get_registered_servers(rc, dirs, answer)} :
     \E decision \in {IF g.res = "ok" THEN RegisterDecision(e, g.out) ELSE g.res} :
       /\ dirs' = g.dirs
       /\ \E pruned \in g.rcs :
            rc' = IF decision = "append" THEN AppendLine(pruned, e.path) ELSE pruned
       /\ Len(get_cached_server_paths(rc')) <= MaxLines
       /\ last' = Call("register", e.path, << >>,
                       IF decision \in {"append", "same"} THEN "ok" ELSE decision,
                       << >>, g.invalid)
  /\ UNCHANGED <<ents, screens, launched, statsCalls, inst>>

\* the argument lists tried for unregister_paths
ArgLists == {<< >>, <<pSA>>, <<pSB>>, <<pSAsp>>, <<pSB, pSA, pSB>>}

\* the prompt is only shown for a directory with several jars: without one,
\* every answer gives the same step
AnswersNow == IF \E p \in DirPaths : Cardinality(dirs[p].files) > 1 THEN Answers ELSE {Cancel}

Next ==
  \/ \E p \in DirPaths : \E fresh \in FreshDirs(p) : MkDir(p, fresh)
  \/ \E p \in DirPaths : RmDir(p)
  \/ \E s \in InputPaths, a \in AnswersNow : Construct(s, a)
  \/ \E e \in ents : Drop(e)
  \/ \E a \in AnswersNow : ListRegistered(a)
  \/ \E ps \in ArgLists : Unregister(ps)
  \/ \E e \in ents, a \in AnswersNow : Register(e, a)

Spec == Init /\ [][Next]_vars

-----------------------------------------------------------------------------
(* Memory tokens (util.check_ram_argument): digits followed by one unit    *)
(* letter; the unit is normalised to upper case.                           *)

Digits == {"0", "1", "2", "3", "4", "5", "6", "7", "8", "9"}
UnitLetters == {"k", "m", "g", "K", "M", "G"}

UpperChar(c) ==
  CASE c = "k" -> "K"
    [] c = "m" -> "M"
    [] c = "g" -> "G"
    [] OTHER -> c

ValidRam(v) ==
  /\ Len(v) >= 2
  /\ \A i \in 1..(Len(v) - 1) : v[i] \in Digits
  /\ v[Len(v)] \in UnitLetters

\* util.check_ram_argument: [res, val]
check_ram_argument(v) ==
  IF ValidRam(v)
  THEN [res |-> "ok", val |-> [i \in 1..Len(v) |-> IF i = Len(v) THEN UpperChar(v[i]) ELSE v[i]]]
  ELSE [res |-> "InvalidArgument", val |-> << >>]

ram4G == <<"4", "G">>
ram4g == <<"4", "g">>
ram4 == <<"4">>

\* Server.ram (getter): [res, val]
ram(e) == check_ram_argument(DictGet(e.data, kRam, ram4G))

-----------------------------------------------------------------------------
(* Session binding.                                                        *)

\* a cached_property that always looks the sessions up again
screen_handle_uncached(e, scr) ==
  IF \E sc \in scr : sc.name = screen_name(e.path)
  THEN {sc \in scr : sc.name = screen_name(e.path)}
  ELSE {NoScreen}

\* Server.screen_handle: the values the property can have.  The first access
\* looks the session up (get_running_screens lists sessions of one name in no
\* specified order) and the result, None included, stays cached on the object
screen_handle(e, scr) ==
  IF e.handle.cached THEN {e.handle.screen}
  ELSE IF \E sc \in scr : sc.name = screen_name(e.path)
  THEN {sc \in scr : sc.name = screen_name(e.path)}
  ELSE {NoScreen}

\* the object after its screen_handle was read as h
Cached(e, h) == [e EXCEPT !.handle.cached = TRUE, !.handle.screen = h]

\* what get_stats returns: the literal (0, 0) of line 134, or the figures
\* psutil reports for the pid it was asked about
ZeroStats == [value |-> "(0, 0)", pid |-> 0]
ProviderStats(pid) == [value |-> "psutil", pid |-> pid]

\* the external sessions: one appears (launched by screen or by hand) ...
ScreenUp(name, pid) ==
  /\ \A sc \in screens : sc.pid # pid
  /\ screens' = screens \cup {[name |-> name, pid |-> pid]}
  /\ last' = Idle
  /\ UNCHANGED <<rc, dirs, ents, launched, statsCalls, inst>>

\* ... and one ends
ScreenDown(sc) ==
  /\ sc \in screens
  /\ screens' = screens \ {sc}
  /\ last' = Idle
  /\ UNCHANGED <<rc, dirs, ents, launched, statsCalls, inst>>

\* e.running; arg records the cache as the call found it
QueryRunning(e) ==
  /\ e \in ents
  /\ \E h \in screen_handle(e, screens) :
       /\ ents' = (ents \ {e}) \cup {Cached(e, h)}
       /\ last' = Call("running", e.path, e.handle, "ok", h # NoScreen, << >>)
  /\ UNCHANGED <<rc, dirs, screens, launched, statsCalls, inst>>

\* get_stats with the test of line 133 dropped: psutil is asked whenever a
\* session of the name is live, whatever the object's handle says
GetStats_ignores_running(e) ==
  /\ e \in ents
  /\ \E h \in screen_handle(e, screens) :
       /\ ents' = (ents \ {e}) \cup {Cached(e, h)}
       /\ IF ~\E sc \in screens : sc.name = screen_name(e.path)
          THEN /\ statsCalls' = statsCalls
               /\ last' = Call("stats", e.path, e.handle, "ok", ZeroStats, << >>)
          ELSE /\ statsCalls < MaxCalls
               /\ statsCalls' = statsCalls + 1
               /\ last' = Call("stats", e.path, e.handle, "ok", ProviderStats(h.pid), << >>)
  /\ UNCHANGED <<rc, dirs, screens, launched, inst>>

\* e.get_stats(): ret is (0, 0) or what psutil reports for the pid asked
GetStats(e) ==
  /\ e \in ents
  /\ \E h \in screen_handle(e, screens) :
       /\ ents' = (ents \ {e}) \cup {Cached(e, h)}
       /\ IF h = NoScreen
          THEN /\ statsCalls' = statsCalls
               /\ last' = Call("stats", e.path, e.handle, "ok", ZeroStats, << >>)
          ELSE /\ statsCalls < MaxCalls
               /\ statsCalls' = statsCalls + 1
               /\ last' = Call("stats", e.path, e.handle, "ok", ProviderStats(h.pid), << >>)
  /\ UNCHANGED <<rc, dirs, screens, launched, inst>>

\* the slot after self.__dict__.pop("screen_handle", None)
Popped(h) ==
  [cached |-> FALSE, screen |-> NoScreen,
   restarted |-> h.restarted \/ (h.cached /\ h.screen = NoScreen)]

\* start without the pop of line 152
Start_keeps_cache(e, override) ==
  /\ e \in ents
  /\ \E r \in {IF override # << >> THEN check_ram_argument(override) ELSE ram(e)} :
       IF r.res # "ok"
       THEN /\ last' = Call("start", e.path, override, r.res, << >>, << >>)
            /\ UNCHANGED <<ents, launched>>
       ELSE /\ Len(launched) < MaxCalls
            /\ ents' = (ents \ {e})
                         \cup {[e EXCEPT !.handle.restarted = Popped(e.handle).restarted]}
            /\ launched' = Append(launched, [name |-> screen_name(e.path), ram |-> r.val,
                                             jar |-> e.jar, cwd |-> e.path])
            /\ last' = Call("start", e.path, override, "ok", e.handle, << >>)
  /\ UNCHANGED <<rc, dirs, screens, statsCalls, inst>>

\* start that returns without launching when a session of the name is live
Start_skips_when_running(e, override) ==
  /\ e \in ents
  /\ \E r \in {IF override # << >> THEN check_ram_argument(override) ELSE ram(e)} :
       IF r.res # "ok"
       THEN /\ last' = Call("start", e.path, override, r.res, << >>, << >>)
            /\ UNCHANGED <<ents, launched>>
       ELSE /\ Len(launched) < MaxCalls
            /\ ents' = (ents \ {e}) \cup {[e EXCEPT !.handle = Popped(e.handle)]}
            /\ launched' = IF \E sc \in screens : sc.name = screen_name(e.path)
                           THEN launched
                           ELSE Append(launched, [name |-> screen_name(e.path), ram |-> r.val,
                                                  jar |-> e.jar, cwd |-> e.path])
            /\ last' = Call("start", e.path, override, "ok", e.handle, << >>)
  /\ UNCHANGED <<rc, dirs, screens, statsCalls, inst>>

\* e.start(ram): an empty override is the default ram=None; ret records the
\* cache as the call found it
Start(e, override) ==
  /\ e \in ents
  /\ \E r \in {IF override # << >> THEN check_ram_argument(override) ELSE ram(e)} :
       IF r.res # "ok"
       THEN /\ last' = Call("start", e.path, override, r.res, << >>, << >>)
            /\ UNCHANGED <<ents, launched>>
       ELSE /\ Len(launched) < MaxCalls
            /\ ents' = (ents \ {e}) \cup {[e EXCEPT !.handle = Popped(e.handle)]}
            /\ launched' = Append(launched, [name |-> screen_name(e.path), ram |-> r.val,
                                             jar |-> e.jar, cwd |-> e.path])
            /\ last' = Call("start", e.path, override, "ok", e.handle, << >>)
  /\ UNCHANGED <<rc, dirs, screens, statsCalls, inst>>

\* the directories of the session specification: two servers set up before
SetUp == [exists |-> TRUE, files |-> {xJar}, meta |-> save_data(<<[k |-> kJar, v |-> xJar]>>)]

SessPaths == {pSA, pSB}

\* the directory the process works in; sessions of the other server come and
\* go beside it
ServedPaths == {pSB}

InitSess ==
  /\ rc = NoFile
  /\ dirs = [p \in DirPaths |-> IF p \in SessPaths THEN SetUp ELSE NoDir]
  /\ ents = {}
  /\ screens = {}
  /\ launched = << >>
  /\ statsCalls = 0
  /\ last = Idle
  /\ inst = NoInst

NextSess ==
  \/ \E s \in ServedPaths : Construct(s, Cancel)
  \/ \E e \in ents : Drop(e)
  \/ \E s \in SessPaths, pid \in 1..MaxPid : ScreenUp(screen_name(s), pid)
  \/ \E sc \in screens : ScreenDown(sc)
  \/ \E e \in ents : QueryRunning(e)
  \/ \E e \in ents : GetStats(e)
  \/ \E e \in ents, o \in {<< >>, ram4g, ram4} : Start(e, o)

SpecSess == InitSess /\ [][NextSess]_vars

-----------------------------------------------------------------------------
(* Saving and loading a mapping (save_data, then _load_data), for mappings *)
(* drawn from small sets of keys and values.                               *)

SampleKeys ==
  {<<"k">>, <<"j">>, << >>, <<"#", "k">>, <<"k", "=">>, <<" ", "k">>, <<"k", " ">>}

SampleValues ==
  {<<"v">>, << >>, <<"v", " ">>, <<" ", "v">>, <<"a", "=", "b">>, <<"#">>, <<"v", NL, "w">>}

\* the mappings of at most MaxEntries entries: sequences of entries with
\* distinct keys, in insertion order
Mappings ==
  UNION {{m \in [1..n -> [k : SampleKeys, v : SampleValues]] :
            \A i, j \in 1..n : m[i].k = m[j].k => i = j} : n \in 0..MaxEntries}

\* an object whose data was filled in by its owner
InitRT ==
  /\ rc = NoFile
  /\ dirs = [p \in DirPaths |-> IF p = pSB THEN SetUp ELSE NoDir]
  /\ \E m \in Mappings :
       ents = {[path |-> pSB, data |-> m, jar |-> xJar, handle |-> Uncached]}
  /\ screens = {}
  /\ launched = << >>
  /\ statsCalls = 0
  /\ last = Idle
  /\ inst = NoInst

\* e.save_data(); arg is the mapping saved
SaveData(e) ==
  /\ e \in ents
  /\ IF IsDir(dirs, e.path)
     THEN /\ dirs' = [dirs EXCEPT ![e.path].meta = save_data(e.data)]
          /\ last' = Call("save", e.path, e.data, "ok", << >>, << >>)
     ELSE /\ dirs' = dirs
          /\ last' = Call("save", e.path, e.data, "FileNotFoundError", << >>, << >>)
  /\ UNCHANGED <<rc, ents, screens, launched, statsCalls, inst>>

\* e._load_data(); ret is the mapping loaded, arg the mapping a save just
\* before wrote
LoadData(e) ==
  /\ e \in ents
  /\ \E m \in {load_data(IF IsDir(dirs, e.path) THEN dirs[e.path].meta ELSE NoFile)} :
       /\ ents' = (ents \ {e}) \cup {[e EXCEPT !.data = m]}
       /\ last' = Call("load", e.path, IF last.op = "save" THEN last.arg ELSE << >>,
                       "ok", m, << >>)
  /\ UNCHANGED <<rc, dirs, screens, launched, statsCalls, inst>>

NextRT ==
  \/ \E e \in ents : SaveData(e)
  \/ \E e \in ents : LoadData(e)

SpecRT == InitRT /\ [][NextRT]_vars

-----------------------------------------------------------------------------
(* The settings of one server directory: the ram and autostart setters,    *)
(* jar files that come and go, and an operator who edits .mcsrvmeta.  The  *)
(* process holds one Server object at a time here.                         *)

\* a hand-written .mcsrvmeta: a comment, a setting, a line without "=", an
\* unknown key whose value holds "="
handMeta ==
  <<"#", "c", NL, "r", "a", "m", "=", "2", "G", NL, "x", NL, "m", "=", "a", "=", "b", NL>>

\* a hand-written "jar = x.jar": the key is "jar ", the value " x.jar"
paddedMeta == <<"j", "a", "r", " ", "=", " ", "x", ".", "j", "a", "r", NL>>

\* a hand-written file with two keys the program does not know: "u=1" and
\* "w=2 " (the value ends with a space)
extraMeta == <<"u", "=", "1", NL, "w", "=", "2", " ", NL>>

SampleMeta == {handMeta, paddedMeta, extraMeta}

EditMeta(p, text) ==
  /\ dirs[p].exists
  /\ dirs[p].meta # File(text)
  /\ dirs' = [dirs EXCEPT ![p].meta = File(text)]
  /\ last' = Idle
  /\ UNCHANGED <<rc, ents, screens, launched, statsCalls, inst>>

\* the ram setter assigning before it validates
SetRam_assigns_first(e, v) ==
  /\ e \in ents
  /\ \E r \in {check_ram_argument(v)} :
     \E data \in {DictSet(e.data, kRam, v)} :
       /\ ents' = (ents \ {e}) \cup {[e EXCEPT !.data = data]}
       /\ dirs' = IF IsDir(dirs, e.path)
                  THEN [dirs EXCEPT ![e.path].meta = save_data(data)] ELSE dirs
       /\ last' = Call("set_ram", e.path, v,
                       IF ~IsDir(dirs, e.path) THEN "FileNotFoundError" ELSE r.res,
                       << >>, << >>)
  /\ UNCHANGED <<rc, screens, launched, statsCalls, inst>>

\* Server.ram (setter): e.ram = v
SetRam(e, v) ==
  /\ e \in ents
  /\ \E r \in {check_ram_argument(v)} :
       IF r.res # "ok"
       THEN /\ last' = Call("set_ram", e.path, v, r.res, << >>, << >>)
            /\ UNCHANGED <<ents, dirs>>
       ELSE \E data \in {DictSet(e.data, kRam, r.val)} :
              /\ ents' = (ents \ {e}) \cup {[e EXCEPT !.data = data]}
              /\ IF IsDir(dirs, e.path)
                 THEN /\ dirs' = [dirs EXCEPT ![e.path].meta = save_data(data)]
                      /\ last' = Call("set_ram", e.path, v, "ok", << >>, << >>)
                 ELSE /\ dirs' = dirs
                      /\ last' = Call("set_ram", e.path, v, "FileNotFoundError", << >>, << >>)
  /\ UNCHANGED <<rc, screens, launched, statsCalls, inst>>

\* Server.autostarts (setter): e.autostarts = b
SetAutostart(e, b) ==
  /\ e \in ents
  /\ \E data \in {DictSet(e.data, kAutostart, IF b THEN sTrue ELSE sFalse)} :
       /\ ents' = (ents \ {e}) \cup {[e EXCEPT !.data = data]}
       /\ IF IsDir(dirs, e.path)
          THEN /\ dirs' = [dirs EXCEPT ![e.path].meta = save_data(data)]
               /\ last' = Call("set_autostart", e.path, b, "ok", << >>, << >>)
          ELSE /\ dirs' = dirs
               /\ last' = Call("set_autostart", e.path, b, "FileNotFoundError", << >>, << >>)
  /\ UNCHANGED <<rc, screens, launched, statsCalls, inst>>

EmptyDir == [exists |-> TRUE, files |-> {}, meta |-> NoFile]

MetaPaths == {pSB}

\* a path that names a regular file, not a directory
pJarFile == pSB \o <<"/">> \o xJar

\* the path strings handed to Server(...) in the settings specification
MetaInputs == MetaPaths \cup {pJarFile}

NextMeta ==
  \/ \E p \in MetaPaths : MkDir(p, EmptyDir)
  \/ \E p \in MetaPaths : RmDir(p)
  \/ \E p \in MetaPaths : \E j \in JarsFor(p) : PutJar(p, j)
  \/ \E p \in MetaPaths : \E j \in JarsFor(p) : DelJar(p, j)
  \/ \E p \in MetaPaths, text \in SampleMeta : EditMeta(p, text)
  \/ \E s \in MetaInputs, answer \in AnswersNow : ents = {} /\ Construct(s, answer)
  \/ \E e \in ents : Drop(e)
  \/ \E e \in ents, v \in {ram4g, ram4} : SetRam(e, v)
  \/ \E e \in ents, b \in BOOLEAN : SetAutostart(e, b)
  \/ \E e \in ents, answer \in AnswersNow : Register(e, answer)
  \/ \E answer \in AnswersNow : ListRegistered(answer)

SpecMeta == Init /\ [][NextMeta]_vars

-----------------------------------------------------------------------------
(* Two Server objects of one directory in one process: the second was      *)
(* constructed after the directory changed, so the two hold different      *)
(* mappings.  Neither ram nor autostart has been set yet.                  *)

\* what happened to the directory between the two constructions: the jar
\* was replaced, or the operator rewrote .mcsrvmeta by hand
Changed ==
  {[SetUp EXCEPT !.files = {yJar}], [SetUp EXCEPT !.meta = File(paddedMeta)]}

InitShare ==
  /\ rc = NoFile
  /\ \E later \in Changed :
     \E first \in {Server(pSB, [p \in DirPaths |-> IF p = pSB THEN SetUp ELSE NoDir], Cancel)} :
     \E second \in {Server(pSB, [first.dirs EXCEPT ![pSB] = later], Cancel)} :
       /\ dirs = second.dirs
       /\ ents = {first.ent, second.ent}
  /\ screens = {}
  /\ launched = << >>
  /\ statsCalls = 0
  /\ last = Idle
  /\ inst = NoInst

NextShare ==
  \/ \E e \in ents, v \in {ram4g, ram4} : SetRam(e, v)
  \/ \E e \in ents, b \in BOOLEAN : SetAutostart(e, b)

SpecShare == InitShare /\ [][NextShare]_vars

-----------------------------------------------------------------------------
(* Instances of the program that run against the same registry file at    *)
(* the same time.  Each runs one command, register or the listing, and the *)
(* instances interleave between their reads and writes of the file:        *)
(*   read     get_registered_servers reads the paths (line 41)             *)
(*   load     the loop of lines 45-50 constructs the servers               *)
(*   reread   unregister_paths reads the file again (line 32)              *)
(*   rewrite  unregister_paths writes the file (lines 35-37)               *)
(*   finish   register decides and appends (lines 115-128)                 *)

Fresh ==
  [pc |-> "idle", op |-> "none", ent |-> NoEnt, paths |-> << >>, out |-> << >>,
   invalid |-> << >>, registered |-> {}, rewrote |-> FALSE, before |-> {}, res |-> "none"]

Insts == 1..MaxInst

\* the directories that can be registered here, and the one that is gone
RacePaths == {pSA, pSB}

InitRace ==
  /\ rc \in {NoFile, File(WriteLines(<<pOA>>))}
  /\ dirs = [p \in DirPaths |-> IF p \in RacePaths THEN SetUp ELSE NoDir]
  /\ ents = {}
  /\ screens = {}
  /\ launched = << >>
  /\ statsCalls = 0
  /\ last = Idle
  /\ inst = [i \in Insts |-> Fresh]

Done(i, res) == [inst EXCEPT ![i].pc = "done", ![i].res = res]

\* an instance is started as "register" in directory s: Server(s) first
BeginRegister(i, s) ==
  /\ inst[i].pc = "idle"
  /\ \E c \in {Server(s, dirs, Cancel)} :
       /\ dirs' = c.dirs
       /\ inst' = IF c.res = "ok"
                  THEN [inst EXCEPT ![i].pc = "read", ![i].op = "register", ![i].ent = c.ent,
                                    ![i].before = {j \in Insts : inst[j].pc = "done"}]
                  ELSE [inst EXCEPT ![i].pc = "done", ![i].op = "register", ![i].res = c.res]
  /\ last' = Idle
  /\ UNCHANGED <<rc, ents, screens, launched, statsCalls>>

\* an instance is started as the listing
BeginList(i) ==
  /\ inst[i].pc = "idle"
  /\ inst' = [inst EXCEPT ![i].pc = "read", ![i].op = "list",
                          ![i].before = {j \in Insts : inst[j].pc = "done"}]
  /\ last' = Idle
  /\ UNCHANGED <<rc, dirs, ents, screens, launched, statsCalls>>

\* get_registered_servers, line 41
ReadPaths(i) ==
  /\ inst[i].pc = "read"
  /\ inst' = [inst EXCEPT ![i].pc = "load", ![i].paths = get_cached_server_paths(rc)]
  /\ last' = Idle
  /\ UNCHANGED <<rc, dirs, ents, screens, launched, statsCalls>>

\* get_registered_servers, lines 45-50, and the test of line 29
LoadAll(i) ==
  /\ inst[i].pc = "load"
  /\ \E r \in {LoadServers(inst[i].paths, dirs, Cancel, << >>, << >>)} :
       /\ dirs' = r.dirs
       /\ inst' = IF r.res # "ok" THEN Done(i, r.res)
                  ELSE [inst EXCEPT ![i].out = r.out, ![i].invalid = r.invalid,
                                    ![i].pc = IF r.invalid = << >> THEN "finish" ELSE "reread"]
       /\ last' = IF r.res # "ok"
                  THEN Call(inst[i].op, inst[i].ent.path, << >>, r.res, << >>, r.invalid)
                  ELSE Idle
  /\ UNCHANGED <<rc, ents, screens, launched, statsCalls>>

\* unregister_paths, line 32
Reread(i) ==
  /\ inst[i].pc = "reread"
  /\ inst' = [inst EXCEPT ![i].pc = "rewrite",
                          ![i].registered = SeqToSet(get_cached_server_paths(rc))]
  /\ last' = Idle
  /\ UNCHANGED <<rc, dirs, ents, screens, launched, statsCalls>>

\* unregister_paths, lines 35-37
Rewrite(i) ==
  /\ inst[i].pc = "rewrite"
  /\ \E o \in Orderings(inst[i].registered \ SeqToSet(inst[i].invalid)) :
       rc' = File(WriteLines(o))
  /\ inst' = [inst EXCEPT ![i].pc = "finish", ![i].rewrote = TRUE]
  /\ last' = Idle
  /\ UNCHANGED <<dirs, ents, screens, launched, statsCalls>>

\* register returning at line 130 without the append of lines 127-128
Finish_without_append(i) ==
  /\ inst[i].pc = "finish"
  /\ \E decision \in {IF inst[i].op = "list" THEN "listed"
                      ELSE RegisterDecision(inst[i].ent, inst[i].out)} :
     \E res \in {IF decision = "IdConflict" THEN decision ELSE "ok"} :
       /\ rc' = rc
       /\ inst' = Done(i, res)
       /\ last' = Call(inst[i].op, inst[i].ent.path, << >>, res,
                       IF inst[i].op = "list" THEN Paths(inst[i].out) ELSE << >>,
                       inst[i].invalid)
  /\ UNCHANGED <<dirs, ents, screens, launched, statsCalls>>

\* the listing returns (line 54); register decides and appends (115-130)
Finish(i) ==
  /\ inst[i].pc = "finish"
  /\ \E decision \in {IF inst[i].op = "list" THEN "listed"
                      ELSE RegisterDecision(inst[i].ent, inst[i].out)} :
     \E res \in {IF decision = "IdConflict" THEN decision ELSE "ok"} :
       /\ rc' = IF decision = "append" THEN AppendLine(rc, inst[i].ent.path) ELSE rc
       /\ inst' = Done(i, res)
       /\ last' = Call(inst[i].op, inst[i].ent.path, << >>, res,
                       IF inst[i].op = "list" THEN Paths(inst[i].out) ELSE << >>,
                       inst[i].invalid)
  /\ UNCHANGED <<dirs, ents, screens, launched, statsCalls>>

NextRace ==
  \/ \E i \in Insts, s \in RacePaths : BeginRegister(i, s)
  \/ \E i \in Insts : BeginList(i)
  \/ \E i \in Insts : ReadPaths(i)
  \/ \E i \in Insts : LoadAll(i)
  \/ \E i \in Insts : Reread(i)
  \/ \E i \in Insts : Rewrite(i)
  \/ \E i \in Insts : Finish(i)

SpecRace == InitRace /\ [][NextRace]_vars

-----------------------------------------------------------------------------
(* Vocabulary of the registry claims.                                      *)

\* the registered paths, as the program reads them
Registered(rcf) == SeqToSet(get_cached_server_paths(rcf))

\* the registered paths whose directory is gone
Stale(rcf, d) == {p \in Registered(rcf) : ~IsDir(d, clean_path(Absolute(p)))}

\* every registered path is missing on disk or constructs successfully
AllLoadable(rcf, d) == get_registered_servers(rcf, d, Cancel).res = "ok"

\* the registered entities, in registry order
Loaded(rcf, d) == get_registered_servers(rcf, d, Cancel).out

\* the lines of the file as written, without their newline
RawLines(rcf) ==
  IF ~rcf.exists THEN << >>
  ELSE With(ReadLines(rcf.text), LAMBDA ls :
         [i \in 1..Len(ls) |->
            IF EndsWith(ls[i], <<NL>>) THEN SubSeq(ls[i], 1, Len(ls[i]) - 1) ELSE ls[i]])

Count(seq, x) == Cardinality({i \in 1..Len(seq) : seq[i] = x})

\* some registered entity has this path's id, and the first of them in
\* registry order has another path
Collides(path, rcf, d) ==
  \E servers \in {Loaded(rcf, d)} :
    \E i \in 1..Len(servers) :
      /\ id(servers[i].path) = id(path)
      /\ servers[i].path # path
      /\ \A j \in 1..(i - 1) : id(servers[j].path) # id(path)

-----------------------------------------------------------------------------
(* C1 (as stated): register of an entity whose id equals the id of a       *)
(* registered entity with another path fails with IdConflict and leaves    *)
(* the registry file exactly as it was, stale registered paths or not.     *)
C1_ConflictLeavesFileIdentical ==
  [][(/\ last'.op = "register"
      /\ AllLoadable(rc, dirs)
      /\ Collides(last'.self, rc, dirs))
     => (last'.res = "IdConflict" /\ rc' = rc)]_vars

(* C1 (amended): when the first registered entity with the id of the       *)
(* registering entity has another path, register fails with IdConflict     *)
(* and appends nothing: the file is untouched if no registered path is     *)
(* stale, and otherwise rewritten to hold exactly the registered paths     *)
(* that are not stale, each once.                                          *)
C1_ConflictPrunesOnly ==
  [][(/\ last'.op = "register"
      /\ AllLoadable(rc, dirs)
      /\ Collides(last'.self, rc, dirs))
     => /\ last'.res = "IdConflict"
        /\ \E stale \in {Stale(rc, dirs)} :
             /\ stale = {} => rc' = rc
             /\ stale # {} =>
                  /\ rc'.exists
                  /\ Registered(rc') = Registered(rc) \ stale
                  /\ RawLines(rc') \in Orderings(Registered(rc'))]_vars

\* a register call failed with IdConflict and pruned a stale path on its way
C1_Witness ==
  /\ last.op = "register"
  /\ last.res = "IdConflict"
  /\ last.warned # << >>
  /\ Registered(rc) # {}

-----------------------------------------------------------------------------
(* C2: registering a path that already has a line in the registry returns  *)
(* successfully and leaves exactly one line for that path.                 *)
C2_ReRegisterIdempotent ==
  [][(/\ last'.op = "register"
      /\ AllLoadable(rc, dirs)
      /\ Count(RawLines(rc), last'.self) >= 1)
     => (last'.res = "ok" /\ Count(RawLines(rc'), last'.self) = 1)]_vars

-----------------------------------------------------------------------------
(* C3: no two lines of the registry resolve to the same id.                *)
C3_UniqueIds ==
  \A i, j \in 1..Len(get_cached_server_paths(rc)) :
    i # j => id(clean_path(Absolute(get_cached_server_paths(rc)[i])))
             # id(clean_path(Absolute(get_cached_server_paths(rc)[j])))

-----------------------------------------------------------------------------
(* C4: when every registered path is missing on disk or constructs, the    *)
(* list call returns exactly one entity per registered path whose          *)
(* directory exists, and leaves exactly those paths registered.            *)
C4_ListPrunesStale ==
  [][(last'.op = "list" /\ AllLoadable(rc, dirs))
     => /\ last'.res = "ok"
        /\ \E live \in {Registered(rc) \ Stale(rc, dirs)} :
             /\ \A p \in live : Count(last'.ret, p) = 1
             /\ SeqToSet(last'.ret) = live
             /\ Registered(rc') = live]_vars

-----------------------------------------------------------------------------
(* C5: unregister(P) leaves registered exactly the paths that were         *)
(* registered and are not in P (so nothing changes when no path of P is    *)
(* registered), and does not touch the file when P is empty.               *)
C5_UnregisterSubtracts ==
  [][last'.op = "unregister"
     => /\ Registered(rc') = Registered(rc) \ SeqToSet(last'.arg)
        /\ last'.arg = << >> => rc' = rc]_vars

\* an unregister call with a non-empty argument left a path registered
C5_Witness ==
  /\ last.op = "unregister"
  /\ last.arg # << >>
  /\ Registered(rc) # {}

-----------------------------------------------------------------------------
(* Vocabulary of the session claims.                                       *)

\* a live session carries the session name of this path
Live(path) == \E sc \in screens : sc.name = screen_name(path)

(* C6 (as stated): whenever the running state of an entity is queried, the *)
(* answer is Running exactly when a live session named 'mc-' + id exists   *)
(* at that moment, whatever was queried on the entity before.              *)
C6_AnswerIsLiveNow ==
  last.op = "running" => (last.ret <=> Live(last.self))

(* C6 (amended): a liveness query on an entity that holds no cached        *)
(* session handle (none since its construction or its last start) answers  *)
(* Running exactly when a live session named 'mc-' + id exists at that     *)
(* moment; every other query repeats the cached handle, live or not.       *)
C6_AnswerIsLiveOrCached ==
  last.op = "running" =>
    IF last.arg.cached
    THEN last.ret <=> (last.arg.screen # NoScreen)
    ELSE last.ret <=> Live(last.self)

\* a query answered Stopped from the cache while the session is live
C6_Witness ==
  /\ last.op = "running"
  /\ last.arg.cached
  /\ ~last.ret
  /\ Live(last.self)

-----------------------------------------------------------------------------
(* C7 (as stated): getStats on an entity whose session is not running      *)
(* returns (0, 0) and does not invoke the Process Stats Provider.          *)
C7_NotLiveGivesZero ==
  [][(last'.op = "stats" /\ ~Live(last'.self))
     => (last'.ret = ZeroStats /\ statsCalls' = statsCalls)]_vars

(* C7 (amended): getStats on an entity whose liveness answer is "not       *)
(* running" (the cached handle if one is cached, else a fresh lookup)      *)
(* returns (0, 0) and does not invoke the Process Stats Provider; with a   *)
(* handle, cached or fresh, it asks the provider about that handle's pid.  *)
C7_NoHandleGivesZero ==
  [][last'.op = "stats"
     => IF \/ last'.arg.cached /\ last'.arg.screen = NoScreen
           \/ ~last'.arg.cached /\ ~Live(last'.self)
        THEN last'.ret = ZeroStats /\ statsCalls' = statsCalls
        ELSE /\ statsCalls' = statsCalls + 1
             /\ last'.arg.cached => last'.ret = ProviderStats(last'.arg.screen.pid)
             /\ ~last'.arg.cached =>
                  \E sc \in screens : /\ sc.name = screen_name(last'.self)
                                      /\ last'.ret = ProviderStats(sc.pid)]_vars

\* getStats returned (0, 0) for an entity with no session, after a start
C7_Witness ==
  /\ last.op = "stats"
  /\ last.ret = ZeroStats
  /\ ~Live(last.self)
  /\ launched # << >>

-----------------------------------------------------------------------------
(* Vocabulary of the metadata claims.                                      *)

Has(str, c) == \E i \in 1..Len(str) : str[i] = c

\* a key/value pair that makes a well-formed line: a non-empty key, exactly
\* one "=" on the line, not a comment line, and one line only
WellFormedPair(k, v) ==
  /\ k # << >>
  /\ ~Has(k, "=") /\ ~Has(v, "=")
  /\ ~StartsWith(k, <<"#">>)
  /\ ~Has(k, NL) /\ ~Has(v, NL)

WellFormed(m) == \A i \in 1..Len(m) : WellFormedPair(m[i].k, m[i].v)

(* C8: for every mapping m of well-formed key/value pairs, save(m)         *)
(* followed by load() yields a mapping equal to m.                         *)
C8_RoundTrip ==
  [][(last.op = "save" /\ last.res = "ok" /\ last'.op = "load" /\ WellFormed(last.arg))
     => last'.ret = last.arg]_vars

\* the stored jar name of directory p, if it names an existing file
ValidStored(d, p) ==
  \E data \in {load_data(d[p].meta)} :
    HasKey(data, kJar) /\ IsFile(d, p, DictGet(data, kJar, << >>))

(* C9: constructing on a directory with exactly one launch candidate and   *)
(* no valid stored jar selects that candidate and persists jar=<name>      *)
(* before returning, so a second construction on the unchanged directory   *)
(* takes the stored-jar path and does not scan.                            *)
C9_AutoSelectPersists ==
  [][(/\ last'.op = "construct"
      /\ IsDir(dirs, last'.self)
      /\ Cardinality(Glob(dirs, last'.self)) = 1
      /\ ~ValidStored(dirs, last'.self))
     => \E j \in Glob(dirs, last'.self) :
          /\ last'.res = "ok"
          /\ last'.ret = <<"glob">>
          /\ \E e \in ents' : e.path = last'.self /\ e.jar = j
          /\ dirs'[last'.self].meta.exists
          /\ DictGet(load_data(dirs'[last'.self].meta), kJar, << >>) = j
          /\ \A answer \in Answers :
               \E second \in {Server(last'.arg, dirs', answer)} :
                 /\ second.res = "ok"
                 /\ ~second.scanned
                 /\ second.ent.jar = j
                 /\ second.dirs = dirs']_vars

C9_Witness ==
  /\ last.op = "construct" /\ last.res = "ok" /\ last.ret = <<"glob">>
  /\ Cardinality(Glob(dirs, last.self)) = 1
  /\ \E e \in ents : e.path = last.self /\ HasKey(e.data, kRam) /\ e.jar = yJar

(* C10: assigning an invalid memory token through the ram setter fails     *)
(* with InvalidArgument and changes neither the in-memory mapping nor the  *)
(* metadata file.                                                           *)
C10_InvalidRamNoWrite ==
  [][(last'.op = "set_ram" /\ ~ValidRam(last'.arg))
     => (last'.res = "InvalidArgument" /\ ents' = ents /\ dirs' = dirs)]_vars

C10_Witness ==
  /\ last.op = "set_ram" /\ last.res = "InvalidArgument"
  /\ \E e \in ents : /\ e.path = last.self
                     /\ DictGet(e.data, kRam, << >>) = ram4G
                     /\ IsDir(dirs, e.path)
                     /\ DictGet(load_data(dirs[e.path].meta), kRam, << >>) = ram4G

(* C11: constructing on a directory with zero launch candidates and no    *)
(* valid stored jar fails with NoArtifact and leaves the directory's       *)
(* metadata file and the registry unchanged.                               *)
C11_NoArtifactLeavesFiles ==
  [][(/\ last'.op = "construct"
      /\ IsDir(dirs, last'.self)
      /\ Glob(dirs, last'.self) = {}
      /\ ~ValidStored(dirs, last'.self))
     => (last'.res = "NoArtifact" /\ dirs' = dirs /\ rc' = rc /\ ents' = ents)]_vars

C11_Witness ==
  /\ last.op = "construct" /\ last.res = "NoArtifact"
  /\ dirs[last.self].meta.exists
  /\ HasKey(load_data(dirs[last.self].meta), kJar)
  /\ rc.exists

(* C12: for every path that is not an existing directory, construction     *)
(* fails with NotFound before any metadata is loaded or written and before *)
(* artifact resolution starts.                                             *)
C12_NotFoundFirst ==
  [][(last'.op = "construct" /\ ~IsDir(dirs, last'.self))
     => /\ last'.res = "NotFound"
        /\ last'.ret = << >>
        /\ dirs' = dirs /\ rc' = rc /\ ents' = ents
        /\ \A answer \in Answers :
             \E c \in {Server(last'.arg, dirs, answer)} :
               ~c.loaded /\ ~c.scanned /\ c.dirs = dirs]_vars

C12_Witness ==
  /\ last.op = "construct" /\ last.res = "NotFound"
  /\ last.self = pJarFile
  /\ IsFile(dirs, pSB, xJar)

-----------------------------------------------------------------------------
(* Vocabulary of the start claims.                                         *)

\* the cache of an object that answered a liveness query with Stopped
CachedStopped(h) == h.cached /\ h.screen = NoScreen

(* C13: if an entity answered a liveness query with Stopped, then start is *)
(* called and the launched session becomes live, every liveness query on   *)
(* that same entity made while the session is live answers Running.        *)
C13_NoStaleStoppedAfterStart ==
  (last.op = "running" /\ last.arg.restarted /\ Live(last.self)) => last.ret

(* C13, amended: start clears the cached liveness result, and a liveness   *)
(* query that finds no cached result answers from the Session Directory    *)
(* as it is at that moment (and the answer is cached again).               *)
C13_StartClearsCache ==
  [][/\ (last'.op = "start" /\ last'.res = "ok")
          => \E e \in ents : /\ e.path = last'.self
                             /\ e.handle = last'.ret
                             /\ \E f \in ents' : /\ ents' = (ents \ {e}) \cup {f}
                                                 /\ ~f.handle.cached
                                                 /\ f.handle.screen = NoScreen
                                                 /\ f.path = e.path
     /\ (last'.op = "running" /\ ~last'.arg.cached)
          => /\ last'.ret <=> Live(last'.self)
             /\ \E e \in ents' : e.path = last'.self /\ e.handle.cached
                                 /\ (e.handle.screen # NoScreen <=> last'.ret)]_vars

C13_Witness ==
  /\ last.op = "start" /\ last.res = "ok" /\ CachedStopped(last.ret)
  /\ Live(last.self)
  /\ \E e \in ents : e.path = last.self /\ ~e.handle.cached /\ e.handle.restarted

\* the memory token start works with: the override, or the stored setting
TokenValid(p, override, objs) ==
  IF override # << >> THEN ValidRam(override)
  ELSE \A e \in objs : e.path = p => ValidRam(DictGet(e.data, kRam, ram4G))

(* C19: every start call with a valid memory token issues exactly one      *)
(* launch invocation for the entity's session name whether or not a        *)
(* session of that name is already live, never retries it, does not wait   *)
(* for or verify startup, and leaves the registry and the metadata file    *)
(* unchanged.                                                               *)
C19_StartLaunchesOnce ==
  [][(last'.op = "start" /\ TokenValid(last'.self, last'.arg, ents))
     => /\ last'.res = "ok"
        /\ Len(launched') = Len(launched) + 1
        /\ SubSeq(launched', 1, Len(launched)) = launched
        /\ launched'[Len(launched')].name = screen_name(last'.self)
        /\ launched'[Len(launched')].cwd = last'.self
        /\ screens' = screens
        /\ statsCalls' = statsCalls
        /\ rc' = rc
        /\ dirs' = dirs]_vars

C19_Witness ==
  /\ last.op = "start" /\ last.res = "ok"
  /\ Live(last.self)
  /\ Len(launched) = 2
  /\ launched[1].name = launched[2].name

-----------------------------------------------------------------------------
(* Vocabulary of the settings claims.                                      *)

\* the value .mcsrvmeta of directory p holds for key k (<< >> if none)
Stored(d, p, k) == DictGet(load_data(d[p].meta), k, << >>)

(* C14: after any sequence of successful autostart-setter and ram-setter   *)
(* calls on objects of one directory, the metadata file holds for every    *)
(* key the value most recently set: each successful setter call leaves its *)
(* own value in the file and keeps the value the other setter stored.      *)
C14_LatestValuesDurable ==
  [][/\ (last'.op = "set_ram" /\ last'.res = "ok")
          => /\ Stored(dirs', last'.self, kRam) = check_ram_argument(last'.arg).val
             /\ Stored(dirs', last'.self, kAutostart) = Stored(dirs, last'.self, kAutostart)
     /\ (last'.op = "set_autostart" /\ last'.res = "ok")
          => /\ Stored(dirs', last'.self, kAutostart) = (IF last'.arg THEN sTrue ELSE sFalse)
             /\ Stored(dirs', last'.self, kRam) = Stored(dirs, last'.self, kRam)]_vars

CountChar(str, c) == Cardinality({i \in 1..Len(str) : str[i] = c})

\* the rule as stated: not a comment, exactly one "=", a non-empty key
Accepted(line) ==
  /\ ~StartsWith(line, <<"#">>)
  /\ CountChar(line, "=") = 1
  /\ FirstIndex(line, "=") > 1

\* the mapping the stated rule gives for a list of lines
RECURSIVE StatedParse(_, _)
StatedParse(lines, data) ==
  IF lines = << >> THEN data
  ELSE With(Strip(Head(lines)), LAMBDA line :
         IF Accepted(line)
         THEN With(FirstIndex(line, "="), LAMBDA i :
                StatedParse(Tail(lines),
                            DictSet(data, SubSeq(line, 1, i - 1), SubSeq(line, i + 1, Len(line)))))
         ELSE StatedParse(Tail(lines), data))

StatedLoad(meta) == IF ~meta.exists THEN << >> ELSE StatedParse(ReadLines(meta.text), << >>)

(* C15: metadata load skips every line beginning with "#" and every line   *)
(* that does not have exactly one "=" splitting it into a non-empty key    *)
(* and a value; only lines with exactly one "=" and a non-empty key        *)
(* produce an entry in the loaded mapping.                                 *)
C15_LoadSkipsMalformed ==
  [][last'.op = "load" => last'.ret = StatedLoad(dirs[last'.self].meta)]_vars

\* a line without its line terminator
Chomp(line) ==
  IF line # << >> /\ line[Len(line)] = NL THEN SubSeq(line, 1, Len(line) - 1) ELSE line

\* the well-formed key=value pairs written in a metadata file, verbatim
RawPairs(meta) ==
  IF ~meta.exists THEN {}
  ELSE {[k |-> SubSeq(l, 1, FirstIndex(l, "=") - 1),
         v |-> SubSeq(l, FirstIndex(l, "=") + 1, Len(l))] :
          l \in {c \in {Chomp(r) : r \in SeqToSet(ReadLines(meta.text))} : Accepted(c)}}

Unrecognized(k) == k \notin {kJar, kRam, kAutostart}

(* C16: every well-formed key=value pair in a metadata file whose key is   *)
(* not jar, ram or autostart is still present with the same value after    *)
(* entity constructions (those of register and of the listing included)    *)
(* and after autostart/ram setter calls on an object that loaded the pair. *)
C16_UnknownKeysKept ==
  [][\A p \in MetaPaths :
       (IsDir(dirs, p) /\ IsDir(dirs', p))
       => \A pr \in RawPairs(dirs[p].meta) :
            (/\ Unrecognized(pr.k)
             /\ \/ last'.op \in {"construct", "list", "register"}
                \/ /\ last'.op \in {"set_ram", "set_autostart"}
                   /\ last'.self = p
                   /\ \E e \in ents : e.path = p /\ HasKey(e.data, pr.k)
                                      /\ DictGet(e.data, pr.k, << >>) = pr.v)
            => pr \in RawPairs(dirs'[p].meta)]_vars

-----------------------------------------------------------------------------
(* Vocabulary of the pruning claim.                                        *)

\* a registered path whose directory exists but offers no jar: its
\* construction fails, and not for a missing directory
Unloadable(rcf, d) ==
  {p \in Registered(rcf) :
     \E c \in {clean_path(Absolute(p))} :
       IsDir(d, c) /\ Glob(d, c) = {} /\ ~ValidStored(d, c)}

(* C18: if during the listing (also when register runs it) construction   *)
(* of a registered path fails for a reason other than a missing directory, *)
(* the failure propagates and the registry file is left unchanged, even    *)
(* when stale paths were met earlier in the same pass.                     *)
C18_PruneAfterFullPass ==
  [][last'.op \in {"list", "register"}
     => /\ Unloadable(rc, dirs) # {}
             => (last'.res \in {"NoArtifact", "Cancelled"} /\ rc' = rc)
        /\ last'.res \in {"NoArtifact", "Cancelled"} => rc' = rc]_vars

C18_Witness ==
  /\ last.op \in {"list", "register"}
  /\ last.res = "NoArtifact"
  /\ last.warned # << >>
  /\ SeqToSet(last.warned) \subseteq Registered(rc)
  /\ Unloadable(rc, dirs) # {}

-----------------------------------------------------------------------------
(* Vocabulary of the concurrency claim.                                    *)

AllDone == \A i \in Insts : inst[i].pc = "done"

\* instance i's register returned successfully, yet its path is not in the
\* registry
Lost(i) ==
  /\ inst[i].op = "register" /\ inst[i].res = "ok"
  /\ inst[i].ent.path \notin Registered(rc)

(* C17: when instances work on the same registry file without coordination *)
(* and interleave at file read/write granularity, a lost update is         *)
(* reachable: a register call returns successfully yet its path is absent  *)
(* from the registry once all instances have finished.  Whenever that      *)
(* happens, another instance that did not start after this one finished    *)
(* rewrote the file from a read that did not hold the path.                *)
C17_LostOnlyByStaleRewrite ==
  \A i \in Insts :
    (AllDone /\ Lost(i))
    => \E j \in Insts \ {i} :
         /\ inst[j].rewrote
         /\ inst[i].ent.path \notin inst[j].registered
         /\ i \notin inst[j].before

C17_Witness ==
  /\ AllDone
  /\ \E i \in Insts : Lost(i)

====
